---- MODULE Spec2Model ----
(***************************************************************************)
(* Lemming: the run orchestration of src/lemming/__main__.py (run,         *)
(* linter_first, formatter, linter_other, run_linter, run_formatter) over  *)
(* the tool executors of src/lemming/config.py (install, run_command,      *)
(* Linter.run).                                                            *)
(*                                                                         *)
(* __main__.py calls Config.get_first_linters, Config.get_other_linters,   *)
(* Config.fail_fast, Formatter.run_format, Formatter.run_check and the     *)
(* tools' name field; config.py does not define them (it holds an earlier  *)
(* Formatter.run(), which __main__.py never calls).  Those definitions are *)
(* written from the specification and are marked so where they appear.     *)
(*                                                                         *)
(* Five specifications: Spec is one run() from its entry on; SpecConfig    *)
(* is an invocation from both() on (read_config_file, then run());         *)
(* SpecRender is one call of run_command (rendering, then subprocess.run); *)
(* SpecOptions is a run() under every setting of the command-line options *)
(* --quiet-commands, --quiet-pip and --only, with weak fairness of its     *)
(* steps; SpecFind is one call of find_config_file.                        *)
(***************************************************************************)
EXTENDS Integers, Sequences, FiniteSets, TLC

\* ------------------------------------------------------------------ bounds
\* The largest number of tools (linters plus formatters) in a configuration.
MaxTools == 3

\* Names given to the tools, by position in their list (distinct names).
LinterNames == <<"flake8", "mypy", "pylint", "ruff", "bandit">>
FormatterNames == <<"black", "isort", "yapf", "autopep8", "usort">>

\* Exit statuses a child process may return (0 = success).
ExitCodes == {0, 1, 2}
\* The exit statuses of the pip install child process.
InstallExitCodes == {0, 1}
\* "No exit status yet".
NoStatus == 0 - 1

Phases == <<"linter_first", "formatter", "linter_other">>

VARIABLES
    config,         \* Settings.config: [formatters, linters, fail_fast]
    only,           \* Settings.only: Optional[List[str]]
    what_to_quiet,  \* Settings.what_to_quiet: [commands, pip]
    format_,        \* run()'s format_ argument: TRUE = format, FALSE = check
    pc,             \* the phase function run() is in, or "done"
    status,         \* "loading" (both() not yet returned), "config_error"
                    \* (both() raised), "running", "finished", "aborted"
                    \* (typer.Exit raised by run_linter/run_formatter) or
                    \* "crashed" (uncaught exception in a tool)
    idx,            \* position of the phase's for loop in its list (1-based)
    at,             \* position inside the loop body
    active,         \* the child processes that have started and not exited
    install_ok,     \* result of the current tool's install(): "none"/"ok"/"failed"
    exit_status,    \* returncode of the current tool's command, or NoStatus
    success,        \* value returned by Linter.run / run_format / run_check
    return_value,   \* the phase function's local return_value
    run_success,    \* run()'s local success
    results,        \* the value each finished phase function returned
    calls,          \* per tool: number of calls of run_linter / run_formatter
    installs,       \* per tool: number of install child processes started
    commands,       \* per tool: number of command child processes started
    outcome,        \* per tool: "none", "succeeded" or "failed"
    entered,        \* the phases entered so far, in order
    exit_code,      \* the process exit code, or NoStatus while running
    dictionary,     \* the configuration file as read: found or not, and the
                    \* dict handed to read_config_file
    rendering,      \* one call of run_command: its arguments, the fields of
                    \* self it reads, its local cmd and what it hands to
                    \* subprocess.run
    log,            \* the closing messages run() has logged, in order
    search          \* one call of find_config_file: the directories and
                    \* what they hold, its arguments, its position, the
                    \* files it has looked for and what it returned

inputs == <<config, only, what_to_quiet, format_, dictionary>>
tool_vars == <<install_ok, exit_status, success>>
counters == <<calls, installs, commands, outcome>>
vars == <<config, only, what_to_quiet, format_, pc, status, idx, at, active,
          install_ok, exit_status, success, return_value,
          run_success, results, calls, installs, commands, outcome, entered,
          exit_code, dictionary, rendering, log,
          search>>

\* ------------------------------------------------------------ configurations
Range(s) == {s[i] : i \in DOMAIN s}

\* Linter (fields from the specification): name, run_first; id is its
\* position in Config.linters, the identity of the object.  allow_nonzero
\* (config.py:294) has its default, False; a configuration file sets it (see
\* LoadedConfig).
LinterLists(n) ==
    {[i \in 1..n |-> [id |-> i, name |-> LinterNames[i], run_first |-> f[i],
                      allow_nonzero |-> FALSE]] :
        f \in [1..n -> BOOLEAN]}

\* Formatter (fields from the specification): name, check_command (present
\* or not), allow_nonzero_on_format; id is its position in Config.formatters.
FormatterLists(n) ==
    {[i \in 1..n |-> [id |-> i, name |-> FormatterNames[i],
                      has_check_command |-> c[i],
                      allow_nonzero_on_format |-> a[i]]] :
        c \in [1..n -> BOOLEAN], a \in [1..n -> BOOLEAN]}

\* Config: formatters, linters, and fail_fast (read at __main__.py:134 and
\* :198; from the specification).
ConfigsOfSize(nl, nf) ==
    {[formatters |-> F, linters |-> L, fail_fast |-> ff] :
        F \in FormatterLists(nf), L \in LinterLists(nl), ff \in BOOLEAN}

Configs ==
    UNION {UNION {ConfigsOfSize(nl, nf) : nf \in 0..(MaxTools - nl)} :
            nl \in 0..MaxTools}

\* WhatToQuiet(commands=quiet_commands, pip=quiet_pip); both options default
\* to False on the command line.
QuietAll == [commands : BOOLEAN, pip : BOOLEAN]
QuietDefault == [commands |-> FALSE, pip |-> FALSE]

\* --only: None, or a list of names
OnlyNone == [is_none |-> TRUE, names |-> <<>>]
OnlyList(names) == [is_none |-> FALSE, names |-> names]
OnlyChoices ==
    {OnlyNone, OnlyList(<<"flake8">>), OnlyList(<<"black">>),
     OnlyList(<<"nosuchtool">>)}

ToolKeys(cfg) ==
    {<<"linter", i>> : i \in 1..Len(cfg.linters)}
        \cup {<<"formatter", i>> : i \in 1..Len(cfg.formatters)}

\* ------------------------------------------------- configuration loading
\* The largest number of entries in the formatters and in the linters list
\* of a configuration file.
MaxEntries == 1

\* The keys a dict holds, in insertion order: the top-level keys of the
\* [lemming] table, and the keys of one [[lemming.linters]] or
\* [[lemming.formatters]] entry.
TopKeyChoices ==
    {SelectSeq(<<"formatters", "linters", "fail_fast", "colour">>,
               LAMBDA k : k \in S) :
        S \in SUBSET {"formatters", "linters", "fail_fast", "colour"}}
EntryChoices ==
    {<<"package">>, <<"package", "args">>, <<"allow_nonzero", "package">>,
     <<"package", "colour">>, <<"args">>}

EntryLists == UNION {[1..n -> EntryChoices] : n \in 0..MaxEntries}

\* The keys read_config_file allows at the top level (config.py:512).
ConfigKeys == <<"formatters", "linters">>
\* The keys from_dict allows in a tool entry (config.py:406-413).
FormatterOrLinterKeys ==
    <<"package", "version", "args", "allow_nonzero", "also_install",
      "install_name">>

\* What both() may find: no configuration file (find_config_file raises),
\* a file without a lemming table (read_config_file_dict raises), or a
\* lemming table with these keys and entries.
NoDictionary ==
    [file |-> "found", top |-> <<>>, fail_fast |-> TRUE,
     formatters |-> <<>>, linters |-> <<>>]
Dictionaries ==
    {[NoDictionary EXCEPT !.file = f] : f \in {"not_found", "no_table"}}
        \cup {[file |-> "found", top |-> t, fail_fast |-> ff,
                formatters |-> F, linters |-> L] :
                t \in TopKeyChoices, ff \in BOOLEAN,
                F \in EntryLists, L \in EntryLists}

\* A dict has values only for the keys it holds.
WellFormed(d) ==
    /\ "formatters" \notin Range(d.top) => d.formatters = <<>>
    /\ "linters" \notin Range(d.top) => d.linters = <<>>
    /\ "fail_fast" \notin Range(d.top) => d.fail_fast = TRUE

\* Mutant of assert_dict_keys: the keys are logged and never refused.
assert_dict_keys_accepts(dictionary_keys, keys) == TRUE

\* assert_dict_keys: TRUE if it returns, FALSE if it raises ValueError.
\* Each key must be in `keys`, from which the keys met before were removed.
assert_dict_keys(dictionary_keys, keys) ==
    \A i \in 1..Len(dictionary_keys) :
        dictionary_keys[i] \in
            Range(keys) \ {dictionary_keys[j] : j \in 1..(i - 1)}

\* FormatterOrLinter.from_dict: TRUE if the object is built, FALSE if
\* assert_dict_keys raises or pydantic refuses cls(**dictionary) (package
\* is the one required field).
from_dict(entry) ==
    /\ assert_dict_keys(entry, FormatterOrLinterKeys)
    /\ "package" \in Range(entry)

\* read_config_file: TRUE if it returns a Config, FALSE if it raises.
read_config_file(d) ==
    /\ assert_dict_keys(d.top, ConfigKeys)
    /\ \A i \in 1..Len(d.formatters) : from_dict(d.formatters[i])
    /\ \A i \in 1..Len(d.linters) : from_dict(d.linters[i])

\* get_config (from the specification; both() calls it, config.py does not
\* define it): find the file, read its lemming table and hand it to
\* read_config_file; an exception of any of the three is not caught.
\* TRUE if a Config is returned.
get_config(d) == d.file = "found" /\ read_config_file(d)

\* The Config read_config_file returns: one Formatter per entry of
\* "formatters" and one Linter per entry of "linters", in order.  The fields
\* __main__.py reads and config.py does not define take the defaults of the
\* specification (run_first false, no check_command, fail_fast true);
\* allow_nonzero_on_format and a linter's allow_nonzero are the entry's
\* allow_nonzero.
LoadedConfig(d) ==
    [formatters |->
        [i \in 1..Len(d.formatters) |->
            [id |-> i, name |-> FormatterNames[i],
             has_check_command |-> FALSE,
             allow_nonzero_on_format |->
                "allow_nonzero" \in Range(d.formatters[i])]],
     linters |->
        [i \in 1..Len(d.linters) |->
            [id |-> i, name |-> LinterNames[i], run_first |-> FALSE,
             allow_nonzero |-> "allow_nonzero" \in Range(d.linters[i])]],
     fail_fast |-> TRUE]

\* The Config before both() has returned: none.
NoConfig == [formatters |-> <<>>, linters |-> <<>>, fail_fast |-> TRUE]

\* ---------------------------------------------------- command rendering
\* A str is a sequence of symbols: a symbol is a space, a placeholder token
\* such as "{path}", or a piece of text holding neither.
\* The largest number of paths given on the command line.
MaxPaths == 2

PathNames == <<"a.py", "b.py", "c.py", "d.py">>

\* sys.executable
PyExe == "/usr/bin/py"

\* FormatterOrLinter._run: "{pyexe} -m {package} {args}"
RunTemplate == <<"{pyexe}", " ", "-m", " ", "{package}", " ", "{args}">>
\* FormatterOrLinter.install: "{pyexe} -m pip install -U {package} {also_install}"
InstallTemplate ==
    <<"{pyexe}", " ", "-m", " ", "pip", " ", "install", " ", "-U", " ",
      "{package}", " ", "{also_install}">>
\* run_command's callers: install passes its template with no paths, _run
\* passes its template with the paths of the command line.
Templates == {RunTemplate, InstallTemplate}

\* self.args
ArgsChoices ==
    {<<>>, <<"--check">>, <<"{path}">>, <<"--diff", " ", "{path}">>,
     <<"{unknown}">>, <<"{packages}", " ", "{path}">>}
\* self.also_install
AlsoInstallChoices == {<<>>, <<"isort">>, <<"isort", "click">>}
\* paths_to_check, each path as str(path)
PathLists == {SubSeq(PathNames, 1, n) : n \in 0..MaxPaths}

\* Mutant of join: the items are concatenated with no separator.
join_concat(items) == items

\* " ".join(items)
RECURSIVE join(_)
join(items) ==
    IF Len(items) <= 1 THEN items
    ELSE <<Head(items), " ">> \o join(Tail(items))

\* str.strip(): leading and trailing whitespace removed
strip(s) ==
    LET kept == {i \in 1..Len(s) : s[i] # " "}
    IN  IF kept = {} THEN <<>>
        ELSE SubSeq(s, CHOOSE i \in kept : \A j \in kept : i <= j,
                       CHOOSE i \in kept : \A j \in kept : i >= j)

\* Mutant of replace: a brace token that is not `old` is dropped, as a
\* formatter of the whole string would do with a name it does not know.
RECURSIVE replace_dropping(_, _, _)
replace_dropping(s, old, new) ==
    IF s = <<>> THEN <<>>
    ELSE (IF Head(s) = old THEN new
          ELSE IF Head(s) \in {"{unknown}", "{packages}"} THEN <<>>
          ELSE <<Head(s)>>) \o replace_dropping(Tail(s), old, new)

\* str.replace(old, new): every occurrence of old, left to right
RECURSIVE replace(_, _, _)
replace(s, old, new) ==
    IF s = <<>> THEN <<>>
    ELSE (IF Head(s) = old THEN new ELSE <<Head(s)>>)
            \o replace(Tail(s), old, new)

\* Mutant of render: {path} is replaced before {args}.
render_path_first(cmd, package, args, paths_to_check, also_install) ==
    LET c1 == strip(cmd)
        c2 == replace(c1, "{pyexe}", <<PyExe>>)
        c3 == replace(c2, "{package}", <<package>>)
        paths == join(paths_to_check)
        c4 == replace(c3, "{path}", paths)
        c5 == replace(c4, "{args}", args)
    IN  replace(c5, "{also_install}", join(also_install))


\* run_command, lines 342-349: the command string it goes on to run
render(cmd, package, args, paths_to_check, also_install) ==
    LET c1 == strip(cmd)
        c2 == replace(c1, "{pyexe}", <<PyExe>>)
        c3 == replace(c2, "{package}", <<package>>)
        c4 == replace(c3, "{args}", args)
        paths == join(paths_to_check)
        c5 == replace(c4, "{path}", paths)
    IN  replace(c5, "{also_install}", join(also_install))

\* run_command, lines 352-354: the args subprocess.run is given, the str
\* cmd itself, with shell left at its default
subprocess_args(cmd) == [type |-> "str", value |-> cmd, shell |-> FALSE]

\* No call of run_command is followed.
NoRendering ==
    [step |-> "none", cmd |-> <<>>, package |-> "", args |-> <<>>,
     paths_to_check |-> <<>>, also_install |-> <<>>, rendered |-> <<>>,
     handed |-> [type |-> "none", value |-> <<>>, shell |-> FALSE]]

\* ------------------------------------------------------ find_config_file
\* The longest chain of directories from the start directory up to the root,
\* and the largest number of directories in $XDG_CONFIG_DIRS.
MaxDepth == 2
MaxXdgDirs == 1

CONFIG_FILE_NAME == ".lemming.toml"

\* The files find_config_file looks for in a directory.
ConfigFileNames ==
    <<CONFIG_FILE_NAME, ".github/.lemming.toml", "pyproject.toml">>

\* What a directory may hold of them.
DirContents == SUBSET Range(ConfigFileNames)

\* No search: the value of `search` outside find_config_file.
NoSearch ==
    [chain |-> <<>>, xdg |-> <<>>, home |-> "none",
     dir_ |-> <<"chain", 1>>, allow_recursion |-> TRUE,
     from_recursion |-> FALSE, caller |-> <<"chain", 1>>,
     at |-> "idle", directory |-> 1, probed |-> <<>>, result |-> <<>>]

\* The variables of the run, which a search leaves alone.
run_vars ==
    <<log, rendering, inputs, pc, status, idx, at, active, tool_vars,
      return_value, run_success, results, counters, entered, exit_code>>

\* dir_.parent: the next directory of the chain; the root is its own parent.
parent(d) ==
    IF d[1] = "chain" /\ d[2] < Len(search.chain)
    THEN <<"chain", d[2] + 1>>
    ELSE d

\* pathlib.Path.exists() of a file of a directory, or of
\* $XDG_CONFIG_HOME/.lemming.toml
exists(file) ==
    CASE file[1][1] = "chain" -> file[2] \in search.chain[file[1][2]]
      [] file[1][1] = "xdg" -> file[2] \in search.xdg[file[1][2]]
      [] file[1][1] = "home" -> search.home = "present"

\* find_config_file(dir_) is called with its default arguments on the start
\* directory (the first of the chain); get_xdg_config_dirs() is the list
\* xdg of existing directories, get_xdg_config_home() a directory that holds
\* .lemming.toml or not, or None.
InitFind ==
    /\ search \in
            {[NoSearch EXCEPT !.chain = c, !.xdg = x, !.home = h,
                              !.at = "current"] :
                c \in UNION {[1..n -> DirContents] : n \in 1..MaxDepth},
                x \in UNION {[1..n -> DirContents] : n \in 0..MaxXdgDirs},
                h \in {"none", "missing", "present"}}
    /\ config = NoConfig
    /\ only = OnlyNone
    /\ what_to_quiet = QuietDefault
    /\ format_ = TRUE
    /\ pc = "done"
    /\ status = "loading"
    /\ idx = 1
    /\ at = "loop"
    /\ active = {}
    /\ install_ok = "none"
    /\ exit_status = NoStatus
    /\ success = TRUE
    /\ return_value = TRUE
    /\ run_success = TRUE
    /\ results = <<>>
    /\ calls = [k \in ToolKeys(config) |-> 0]
    /\ installs = [k \in ToolKeys(config) |-> 0]
    /\ commands = [k \in ToolKeys(config) |-> 0]
    /\ outcome = [k \in ToolKeys(config) |-> "none"]
    /\ entered = <<"linter_first">>
    /\ exit_code = NoStatus
    /\ dictionary = NoDictionary
    /\ rendering = NoRendering
    /\ log = <<>>

\* "if (file := ...).exists(): return file": one of the three checks of the
\* directory dir_, which returns the file or goes on to the next check.
check(step, name, next) ==
    /\ search.at = step
    /\ LET file == <<search.dir_, name>>
       IN  search' =
                IF exists(file)
                THEN [search EXCEPT !.at = "returned", !.result = file,
                                    !.probed = Append(@, file)]
                ELSE [search EXCEPT !.at = next,
                                    !.probed = Append(@, file)]
    /\ UNCHANGED run_vars

\* lines 209-214
check_current_directory == check("current", ConfigFileNames[1], "github")
\* lines 215-223
check_github_directory == check("github", ConfigFileNames[2], "pyproject")
\* lines 224-229
check_pyproject == check("pyproject", ConfigFileNames[3], "xdg_config_dirs")

\* lines 230-245: unless from_recursion, find_config_file is called on the
\* next directory of $XDG_CONFIG_DIRS with allow_recursion=False and
\* from_recursion=True; what it returns is returned.
check_xdg_config_dirs ==
    /\ search.at = "xdg_config_dirs"
    /\ search' =
            IF ~search.from_recursion /\ search.directory <= Len(search.xdg)
            THEN [search EXCEPT !.caller = search.dir_,
                                !.dir_ = <<"xdg", search.directory>>,
                                !.allow_recursion = FALSE,
                                !.from_recursion = TRUE,
                                !.at = "current"]
            ELSE [search EXCEPT !.at = "xdg_config_home"]
    /\ UNCHANGED run_vars

\* lines 246-255
check_xdg_config_home ==
    /\ search.at = "xdg_config_home"
    /\ LET file == <<<<"home", 1>>, CONFIG_FILE_NAME>>
       IN  search' =
                IF ~search.from_recursion /\ search.home # "none"
                THEN IF exists(file)
                     THEN [search EXCEPT !.at = "returned", !.result = file,
                                         !.probed = Append(@, file)]
                     ELSE [search EXCEPT !.at = "parent",
                                         !.probed = Append(@, file)]
                ELSE [search EXCEPT !.at = "parent"]
    /\ UNCHANGED run_vars

\* Mutant of recursion_with_parent: "find_config_file(parent)", without
\* from_recursion=True.
recursion_with_parent_from_scratch ==
    /\ search.at = "parent"
    /\ search' =
            IF search.allow_recursion
            THEN IF parent(search.dir_) = search.dir_
                 THEN [search EXCEPT !.at = "raised"]
                 ELSE [search EXCEPT !.dir_ = parent(search.dir_),
                                     !.allow_recursion = TRUE,
                                     !.from_recursion = FALSE,
                                     !.directory = 1,
                                     !.at = "current"]
            ELSE [search EXCEPT !.dir_ = search.caller,
                                !.allow_recursion = TRUE,
                                !.from_recursion = FALSE,
                                !.directory = @ + 1,
                                !.at = "xdg_config_dirs"]
    /\ UNCHANGED run_vars

\* lines 256-271: with allow_recursion, raise if dir_ is its own parent,
\* else search the parent with from_recursion=True; without allow_recursion
\* (the call on a directory of $XDG_CONFIG_DIRS), raise, which the caller's
\* contextlib.suppress swallows before it takes the next directory.
recursion_with_parent ==
    /\ search.at = "parent"
    /\ search' =
            IF search.allow_recursion
            THEN IF parent(search.dir_) = search.dir_
                 THEN [search EXCEPT !.at = "raised"]
                 ELSE [search EXCEPT !.dir_ = parent(search.dir_),
                                     !.allow_recursion = TRUE,
                                     !.from_recursion = TRUE,
                                     !.at = "current"]
            ELSE [search EXCEPT !.dir_ = search.caller,
                                !.allow_recursion = TRUE,
                                !.from_recursion = FALSE,
                                !.directory = @ + 1,
                                !.at = "xdg_config_dirs"]
    /\ UNCHANGED run_vars

NextFind ==
    \/ check_current_directory
    \/ check_github_directory
    \/ check_pyproject
    \/ check_xdg_config_dirs
    \/ check_xdg_config_home
    \/ recursion_with_parent

\* find_config_file is sequential code that waits for nothing: a step that
\* can be taken is taken.
SpecFind == InitFind /\ [][NextFind]_vars /\ WF_vars(NextFind)


\* ------------------------------------------------------- pure functions
\* Mutant of should_run: the "only" list is not consulted.
should_run_always(name) == TRUE

\* Mutant of should_run: "if self.only is None", so an empty list is a
\* subset that no name is in.
should_run_empty_is_subset(name) ==
    IF only.is_none THEN TRUE ELSE name \in Range(only.names)

\* Settings.should_run
should_run(name) ==
    IF only.is_none \/ only.names = <<>>
    THEN TRUE
    ELSE name \in Range(only.names)

\* Config.get_first_linters (from the specification):
\* [l for l in linters if l.run_first], order preserved
get_first_linters(cfg) == SelectSeq(cfg.linters, LAMBDA l : l.run_first)

\* Mutant of get_other_linters: every linter, whatever its run_first.
get_all_linters(cfg) == cfg.linters

\* Config.get_other_linters (from the specification): the complement,
\* order preserved
get_other_linters(cfg) == SelectSeq(cfg.linters, LAMBDA l : ~l.run_first)

\* run_command's return value: exit_status == 0
run_command(returncode) == returncode = 0

\* Mutant of Linter_run_proceeds: a failed install ends Linter.run.
Linter_run_needs_install(installed) == installed

\* Linter.run: a failed install is logged and the command is run all the same
Linter_run_proceeds(installed) == TRUE

\* Mutant of Linter_run: allow_nonzero counts for a linter as it does for a
\* formatter.
Linter_run_allows_nonzero(ran, allow_nonzero) == ran \/ allow_nonzero

\* Linter.run: allow_nonzero only brings a warning ("only supported for
\* formatters, not linters! Ignoring"); success = self._run(...); return
\* success
Linter_run(ran, allow_nonzero) == ran

\* Mutant of run_format_proceeds: the failed install is only logged.
run_format_proceeds_anyway(installed) == TRUE

\* Formatter.run_format (from the specification): a failed install returns
\* False before the format command
run_format_proceeds(installed) == installed

\* Formatter.run_format (from the specification): Succeeded if the exit
\* status is 0 or allow_nonzero_on_format is set
run_format(ran, allow_nonzero_on_format) == ran \/ allow_nonzero_on_format

\* Mutant of run_check_skips: run_check installs and runs in every case.
run_check_never_skips(f) == FALSE


\* Formatter.run_check (from the specification): without a check_command,
\* return True at once, before install
run_check_skips(f) == ~f.has_check_command

\* Formatter.run_check (from the specification): a failed install returns
\* False before the check command
run_check_proceeds(installed) == installed

\* Formatter.run_check (from the specification): the check command's exit
\* status alone decides
run_check(ran) == ran

\* ------------------------------------------------------------- the run
Running == status = "running" /\ pc \in Range(Phases)

\* The list the phase function iterates over.
PhaseTools(p) ==
    CASE p = "linter_first" -> get_first_linters(config)
      [] p = "formatter" -> config.formatters
      [] p = "linter_other" -> get_other_linters(config)

KindOf(p) == IF p = "formatter" THEN "formatter" ELSE "linter"

\* The tool of the current loop iteration and its key.
Tool == PhaseTools(pc)[idx]
Key == <<KindOf(pc), Tool.id>>

InLoopBody == pc \in Range(Phases) /\ idx <= Len(PhaseTools(pc))

\* Mutant of InstallProc: install() is handed the commands flag.
InstallProc_commands_flag ==
    [tool |-> Key, what |-> "install", quiet |-> what_to_quiet.commands]

\* The child processes: which tool, install or command, and its quiet flag.
InstallProc == [tool |-> Key, what |-> "install", quiet |-> what_to_quiet.pip]
CommandProc == [tool |-> Key, what |-> "command", quiet |-> what_to_quiet.commands]

\* The state on entry to run(): the Settings built by both(), no phase begun.
InitWith(configs, onlys, quiets) ==
    /\ config \in configs
    /\ only \in onlys
    /\ what_to_quiet \in quiets
    /\ format_ \in BOOLEAN
    /\ pc = "linter_first"
    /\ status = "running"
    /\ idx = 1
    /\ at = "loop"
    /\ active = {}
    /\ install_ok = "none"
    /\ exit_status = NoStatus
    /\ success = TRUE
    /\ return_value = TRUE
    /\ run_success = TRUE
    /\ results = <<>>
    /\ calls = [k \in ToolKeys(config) |-> 0]
    /\ installs = [k \in ToolKeys(config) |-> 0]
    /\ commands = [k \in ToolKeys(config) |-> 0]
    /\ outcome = [k \in ToolKeys(config) |-> "none"]
    /\ entered = <<"linter_first">>
    /\ exit_code = NoStatus
    /\ dictionary = NoDictionary
    /\ rendering = NoRendering
    /\ log = <<>>
    /\ search = NoSearch

Init == InitWith(Configs, OnlyChoices, {QuietDefault})

\* Mutant of run_linter_raises: the failure is returned, never raised.
run_linter_never_raises(ok, fail_fast) == FALSE

\* run_linter: raise typer.Exit(1) if the linter failed and fail_fast is set
run_linter_raises(ok, fail_fast) == ~ok /\ fail_fast

\* Mutant of run_formatter_raises: the raise is outside "if not success".
run_formatter_raises_always(ok, fail_fast) == fail_fast

\* run_formatter: raise typer.Exit(1) if the formatter failed and fail_fast is set
run_formatter_raises(ok, fail_fast) == ~ok /\ fail_fast

\* Mutant of run_aggregate: "success = phase(...)", the last phase wins.
run_aggregate_last(so_far, returned) == returned

\* run(): "if phase(...) is False: success = False"
run_aggregate(so_far, returned) == IF returned = FALSE THEN FALSE ELSE so_far

\* Mutants of formatter_task: run_format whatever the task; the two
\* branches exchanged.
formatter_task_always_format(format_flag) == "run_format"
formatter_task_swapped(format_flag) ==
    IF format_flag THEN "run_check" ELSE "run_format"

\* run_formatter: "if format_: formatter.run_format(...) else:
\* formatter.run_check(...)"
formatter_task(format_flag) == IF format_flag THEN "run_format" ELSE "run_check"

\* The executor called on the current tool.
Executor ==
    IF KindOf(pc) = "linter" THEN "Linter.run" ELSE formatter_task(format_)

\* Mutant of NeedsInstall: only the Format task installs a linter.
NeedsInstall_by_task ==
    IF Executor = "run_check" THEN ~run_check_skips(Tool)
    ELSE IF Executor = "Linter.run" THEN format_
    ELSE TRUE

\* Whether the tool's executor begins with install(): Linter.run and
\* run_format always, run_check unless the formatter has no check_command.
NeedsInstall ==
    IF Executor = "run_check" THEN ~run_check_skips(Tool) ELSE TRUE

\* Whether the executor goes on to its command after install() returned.
Proceeds ==
    CASE Executor = "Linter.run" -> Linter_run_proceeds(install_ok = "ok")
      [] Executor = "run_format" -> run_format_proceeds(install_ok = "ok")
      [] Executor = "run_check" -> run_check_proceeds(install_ok = "ok")

\* What the executor returns once its command returned `ran`.
Returned(ran) ==
    CASE Executor = "Linter.run" -> Linter_run(ran, Tool.allow_nonzero)
      [] Executor = "run_format" -> run_format(ran, Tool.allow_nonzero_on_format)
      [] Executor = "run_check" -> run_check(ran)

Outcome(ok) == IF ok THEN "succeeded" ELSE "failed"

\* The head of a phase function's for loop, with a tool left in the list:
\* skip it (should_run is false) or call run_linter / run_formatter on it.
for_loop(p) ==
    /\ Running /\ pc = p /\ at = "loop"
    /\ idx <= Len(PhaseTools(p))
    /\ IF should_run(Tool.name)
       THEN /\ at' = "call"
            /\ idx' = idx
            /\ calls' = [calls EXCEPT ![Key] = @ + 1]
       ELSE /\ at' = "loop"
            /\ idx' = idx + 1
            /\ calls' = calls
    /\ UNCHANGED <<search, log, rendering, inputs, pc, status, active, tool_vars, return_value,
                   run_success, results, installs, commands, outcome,
                   entered, exit_code>>

\* Mutant of phase_return: run() chains the phases with "and", so a phase
\* that returned False ends the run without the phases after it.
phase_return_short_circuit(p, next) ==
    /\ Running /\ pc = p /\ at = "loop"
    /\ idx > Len(PhaseTools(p))
    /\ results' = results @@ (p :> return_value)
    /\ run_success' = run_aggregate(run_success, return_value)
    /\ IF return_value
       THEN /\ pc' = next
            /\ idx' = 1
            /\ entered' = Append(entered, next)
            /\ UNCHANGED <<status, exit_code>>
       ELSE /\ pc' = "done"
            /\ idx' = idx
            /\ entered' = Append(entered, "done")
            /\ status' = "finished"
            /\ exit_code' = 1
    /\ return_value' = TRUE
    /\ UNCHANGED <<search, log, rendering, inputs, at, active, tool_vars, counters>>

\* The list is exhausted: the phase function returns return_value to run(),
\* which records it and calls the next phase function.
phase_return(p, next) ==
    /\ Running /\ pc = p /\ at = "loop"
    /\ idx > Len(PhaseTools(p))
    /\ results' = results @@ (p :> return_value)
    /\ run_success' = run_aggregate(run_success, return_value)
    /\ pc' = next
    /\ idx' = 1
    /\ return_value' = TRUE
    /\ entered' = Append(entered, next)
    /\ UNCHANGED <<search, log, rendering, inputs, status, at, active, tool_vars, counters, exit_code>>

\* run(), lines 283-292: the error "Failed, due to one or more
\* linters/formatters failing" if success is False, else the message
\* "Successfully ran all formatters and linters".
run_summary(ok) == IF ok THEN "success" ELSE "summary_error"

\* Mutant of run_finish: run() logs the failure and returns, without
\* "raise typer.Exit(1)".
run_finish_no_raise ==
    /\ Running /\ pc = "linter_other" /\ at = "loop"
    /\ idx > Len(PhaseTools(pc))
    /\ results' = results @@ (pc :> return_value)
    /\ run_success' = run_aggregate(run_success, return_value)
    /\ pc' = "done"
    /\ status' = "finished"
    /\ exit_code' = 0
    /\ log' = Append(log, run_summary(run_success'))
    /\ entered' = Append(entered, "done")
    /\ UNCHANGED <<search, rendering, inputs, idx, at, active, tool_vars,
                   return_value,
                   counters>>

\* linter_other returns: run() raises typer.Exit(1) if success is False and
\* logs the success message otherwise.
run_finish ==
    /\ Running /\ pc = "linter_other" /\ at = "loop"
    /\ idx > Len(PhaseTools(pc))
    /\ results' = results @@ (pc :> return_value)
    /\ run_success' = run_aggregate(run_success, return_value)
    /\ pc' = "done"
    /\ status' = "finished"
    /\ exit_code' = IF run_success' THEN 0 ELSE 1
    /\ log' = Append(log, run_summary(run_success'))
    /\ entered' = Append(entered, "done")
    /\ UNCHANGED <<search, rendering, inputs, idx, at, active, tool_vars,
                   return_value,
                   counters>>

linter_first ==
    \/ for_loop("linter_first")
    \/ phase_return("linter_first", "formatter")

formatter ==
    \/ for_loop("formatter")
    \/ phase_return("formatter", "linter_other")

linter_other ==
    \/ for_loop("linter_other")
    \/ run_finish

\* FormatterOrLinter.install: run_command starts the pip child process.
install ==
    /\ Running /\ InLoopBody /\ at = "call"
    /\ NeedsInstall
    /\ at' = "installing"
    /\ active' = active \cup {InstallProc}
    /\ installs' = [installs EXCEPT ![Key] = @ + 1]
    /\ UNCHANGED <<search, log, rendering, inputs, pc, status, idx, tool_vars, return_value,
                   run_success, results, calls, commands, outcome, entered,
                   exit_code>>

\* Mutant of install_exit: the pip child process is not waited for.
install_exit_nowait(returncode) ==
    /\ Running /\ InLoopBody /\ at = "installing"
    /\ InstallProc \in active
    /\ active' = active
    /\ install_ok' = IF run_command(returncode) THEN "ok" ELSE "failed"
    /\ at' = "installed"
    /\ UNCHANGED <<search, log, rendering, inputs, pc, status, idx, exit_status, success,
                   return_value, run_success, results, counters, entered,
                   exit_code>>

\* The pip child process exits; install() returns exit_status == 0.
install_exit(returncode) ==
    /\ Running /\ InLoopBody /\ at = "installing"
    /\ InstallProc \in active
    /\ active' = active \ {InstallProc}
    /\ install_ok' = IF run_command(returncode) THEN "ok" ELSE "failed"
    /\ at' = "installed"
    /\ UNCHANGED <<search, log, rendering, inputs, pc, status, idx, exit_status, success,
                   return_value, run_success, results, counters, entered,
                   exit_code>>

\* run_check (from the specification) on a formatter without
\* check_command: True, nothing is run.
run_check_without_command ==
    /\ Running /\ InLoopBody /\ at = "call"
    /\ ~NeedsInstall
    /\ at' = "returned"
    /\ success' = TRUE
    /\ outcome' = [outcome EXCEPT ![Key] = Outcome(TRUE)]
    /\ UNCHANGED <<search, log, rendering, inputs, pc, status, idx, active, install_ok, exit_status,
                   return_value, run_success, results, calls, installs,
                   commands, entered, exit_code>>

\* run_format / run_check (from the specification) after a failed install:
\* False, no command is run.
install_failed ==
    /\ Running /\ InLoopBody /\ at = "installed"
    /\ ~Proceeds
    /\ at' = "returned"
    /\ success' = FALSE
    /\ outcome' = [outcome EXCEPT ![Key] = Outcome(FALSE)]
    /\ UNCHANGED <<search, log, rendering, inputs, pc, status, idx, active, install_ok, exit_status,
                   return_value, run_success, results, calls, installs,
                   commands, entered, exit_code>>

\* Mutant of command: once a command was started with its output shown, the
\* commands flag is set in the settings for the commands after it.
command_sets_quiet ==
    /\ Running /\ InLoopBody /\ at = "installed"
    /\ Proceeds
    /\ at' = "running"
    /\ active' = active \cup {CommandProc}
    /\ commands' = [commands EXCEPT ![Key] = @ + 1]
    /\ what_to_quiet' = [what_to_quiet EXCEPT !.commands = TRUE]
    /\ UNCHANGED <<search, log, rendering, config, only, format_, dictionary, pc,
                   status, idx, tool_vars, return_value, run_success, results,
                   calls, installs, outcome, entered, exit_code>>


\* run_command starts the tool's command as a child process.
command ==
    /\ Running /\ InLoopBody /\ at = "installed"
    /\ Proceeds
    /\ at' = "running"
    /\ active' = active \cup {CommandProc}
    /\ commands' = [commands EXCEPT ![Key] = @ + 1]
    /\ UNCHANGED <<search, log, rendering, inputs, pc, status, idx, tool_vars, return_value,
                   run_success, results, calls, installs, outcome, entered, exit_code>>

\* The command's child process exits; the executor returns to its caller.
command_exit(returncode) ==
    /\ Running /\ InLoopBody /\ at = "running"
    /\ CommandProc \in active
    /\ active' = active \ {CommandProc}
    /\ exit_status' = returncode
    /\ success' = Returned(run_command(returncode))
    /\ outcome' = [outcome EXCEPT ![Key] = Outcome(success')]
    /\ at' = "returned"
    /\ UNCHANGED <<search, log, rendering, inputs, pc, status, idx, install_ok, return_value,
                   run_success, results, calls, installs, commands, entered,
                   exit_code>>

\* The rest of run_linter / run_formatter and of the loop body: raise
\* typer.Exit(1), or hand success to the loop, which clears return_value on
\* a failure and takes the next tool.
tool_return(raises) ==
    /\ Running /\ InLoopBody /\ at = "returned"
    /\ IF raises
       THEN /\ status' = "aborted"
            /\ exit_code' = 1
            /\ UNCHANGED <<idx, at, tool_vars, return_value>>
       ELSE /\ at' = "loop"
            /\ idx' = idx + 1
            /\ return_value' = IF ~success THEN FALSE ELSE return_value
            /\ install_ok' = "none"
            /\ exit_status' = NoStatus
            /\ success' = TRUE
            /\ UNCHANGED <<status, exit_code>>
    /\ UNCHANGED <<search, log, rendering, inputs, pc, active, run_success, results, counters, entered>>

run_linter ==
    /\ KindOf(pc) = "linter"
    /\ tool_return(run_linter_raises(success, config.fail_fast))

run_formatter ==
    /\ KindOf(pc) = "formatter"
    /\ tool_return(run_formatter_raises(success, config.fail_fast))

\* subprocess.run raises (OSError: the executable cannot be started); nothing
\* catches it and the run ends with a traceback.
spawn_error ==
    /\ Running /\ InLoopBody
    /\ \/ at = "call" /\ NeedsInstall
       \/ at = "installed" /\ Proceeds
    /\ status' = "crashed"
    /\ exit_code' = 1
    /\ UNCHANGED <<search, log, rendering, inputs, pc, idx, at, active, tool_vars, return_value,
                   run_success, results, counters, entered>>

Next ==
    \/ linter_first
    \/ formatter
    \/ linter_other
    \/ install
    \/ \E returncode \in InstallExitCodes : install_exit(returncode)
    \/ run_check_without_command
    \/ install_failed
    \/ command
    \/ \E returncode \in ExitCodes : command_exit(returncode)
    \/ run_linter
    \/ run_formatter
    \/ spawn_error

Spec == Init /\ [][Next]_vars

\* Mutant of both: a configuration that cannot be loaded is logged and the
\* run goes on with the entries that could be read.
both_ignores_errors ==
    /\ status = "loading"
    /\ status' = "running"
    /\ config' = IF dictionary.file = "found"
                 THEN LoadedConfig(dictionary) ELSE NoConfig
    /\ calls' = [k \in ToolKeys(config') |-> 0]
    /\ installs' = [k \in ToolKeys(config') |-> 0]
    /\ commands' = [k \in ToolKeys(config') |-> 0]
    /\ outcome' = [k \in ToolKeys(config') |-> "none"]
    /\ UNCHANGED <<search, log, rendering, only, what_to_quiet, format_, dictionary, pc, idx, at,
                   active, tool_vars, return_value, run_success, results,
                   entered, exit_code>>

\* format_ / check evaluate both(...) before they call run(): the
\* configuration file is found, read and made a Config, or an exception ends
\* the invocation before run() is entered.
both ==
    /\ status = "loading"
    /\ IF get_config(dictionary)
       THEN /\ status' = "running"
            /\ config' = LoadedConfig(dictionary)
            /\ calls' = [k \in ToolKeys(config') |-> 0]
            /\ installs' = [k \in ToolKeys(config') |-> 0]
            /\ commands' = [k \in ToolKeys(config') |-> 0]
            /\ outcome' = [k \in ToolKeys(config') |-> "none"]
            /\ exit_code' = exit_code
       ELSE /\ status' = "config_error"
            /\ exit_code' = 1
            /\ UNCHANGED <<config, counters>>
    /\ UNCHANGED <<search, log, rendering, only, what_to_quiet, format_, dictionary, pc, idx, at,
                   active, tool_vars, return_value, run_success, results,
                   entered>>

\* The invocation from the command line on: both(), then run().
InitConfig ==
    /\ dictionary \in {d \in Dictionaries : WellFormed(d)}
    /\ config = NoConfig
    /\ only = OnlyNone
    /\ what_to_quiet = QuietDefault
    /\ format_ \in BOOLEAN
    /\ pc = "linter_first"
    /\ status = "loading"
    /\ idx = 1
    /\ at = "loop"
    /\ active = {}
    /\ install_ok = "none"
    /\ exit_status = NoStatus
    /\ success = TRUE
    /\ return_value = TRUE
    /\ run_success = TRUE
    /\ results = <<>>
    /\ calls = [k \in ToolKeys(config) |-> 0]
    /\ installs = [k \in ToolKeys(config) |-> 0]
    /\ commands = [k \in ToolKeys(config) |-> 0]
    /\ outcome = [k \in ToolKeys(config) |-> "none"]
    /\ entered = <<"linter_first">>
    /\ exit_code = NoStatus
    /\ rendering = NoRendering
    /\ log = <<>>
    /\ search = NoSearch

NextConfig ==
    \/ both
    \/ Next

SpecConfig == InitConfig /\ [][NextConfig]_vars

\* run_command is called: its cmd and paths_to_check arguments and the
\* fields of self it reads.
InitRender ==
    /\ rendering \in
            UNION {{[NoRendering EXCEPT !.step = "called", !.cmd = t,
                                        !.package = "black", !.args = a,
                                        !.paths_to_check = ps,
                                        !.also_install = ai] :
                        a \in ArgsChoices, ai \in AlsoInstallChoices,
                        ps \in IF t = InstallTemplate
                               THEN {<<>>} ELSE PathLists} :
                    t \in Templates}
    /\ config = NoConfig
    /\ only = OnlyNone
    /\ what_to_quiet = QuietDefault
    /\ format_ = TRUE
    /\ pc = "done"
    /\ status = "finished"
    /\ idx = 1
    /\ at = "loop"
    /\ active = {}
    /\ install_ok = "none"
    /\ exit_status = NoStatus
    /\ success = TRUE
    /\ return_value = TRUE
    /\ run_success = TRUE
    /\ results = <<>>
    /\ calls = [k \in ToolKeys(config) |-> 0]
    /\ installs = [k \in ToolKeys(config) |-> 0]
    /\ commands = [k \in ToolKeys(config) |-> 0]
    /\ outcome = [k \in ToolKeys(config) |-> "none"]
    /\ entered = <<"linter_first">>
    /\ exit_code = NoStatus
    /\ dictionary = NoDictionary
    /\ log = <<>>
    /\ search = NoSearch

\* run_command, lines 342-349: cmd is stripped and its placeholders replaced.
render_command ==
    /\ rendering.step = "called"
    /\ rendering' =
            [rendering EXCEPT
                !.step = "rendered",
                !.rendered = render(rendering.cmd, rendering.package,
                                    rendering.args, rendering.paths_to_check,
                                    rendering.also_install)]
    /\ UNCHANGED <<search, log, inputs, pc, status, idx, at, active, tool_vars, return_value,
                   run_success, results, counters, entered, exit_code>>

\* run_command, lines 352-354: subprocess.run is called on cmd.
subprocess_run ==
    /\ rendering.step = "rendered"
    /\ rendering' =
            [rendering EXCEPT
                !.step = "spawned",
                !.handed = subprocess_args(rendering.rendered)]
    /\ UNCHANGED <<search, log, inputs, pc, status, idx, at, active, tool_vars, return_value,
                   run_success, results, counters, entered, exit_code>>

NextRender ==
    \/ render_command
    \/ subprocess_run

SpecRender == InitRender /\ [][NextRender]_vars

\* A run under every setting of the command-line options: each combination
\* of --quiet-commands and --quiet-pip, and --only absent, given without a
\* name, or given with names; on the configurations of at most one linter
\* and one formatter.
SmallConfigs ==
    {c \in Configs : Len(c.linters) <= 1 /\ Len(c.formatters) <= 1}

OnlyAll == OnlyChoices \cup {OnlyList(<<>>)}

InitOptions == InitWith(SmallConfigs, OnlyAll, QuietAll)

\* run() is sequential code: a step that can be taken is taken; and a child
\* process that was started exits (subprocess.run returns).
SpecOptions == InitOptions /\ [][Next]_vars /\ WF_vars(Next)

TypeOK ==
    /\ status \in {"loading", "config_error", "running", "finished",
                   "aborted", "crashed"}
    /\ pc \in Range(Phases) \cup {"done"}
    /\ at \in {"loop", "call", "installing", "installed", "running", "returned"}

\* ------------------------------------------------------------- claims
\* The keys of a list of tools, in list order.
KeysOf(kind, tools) == [i \in 1..Len(tools) |-> <<kind, tools[i].id>>]

\* Every tool in overall execution order: first linters, formatters, other
\* linters.
ExecutionOrder ==
    KeysOf("linter", get_first_linters(config))
        \o KeysOf("formatter", config.formatters)
        \o KeysOf("linter", get_other_linters(config))

NotStarted(k) ==
    calls[k] = 0 /\ installs[k] = 0 /\ commands[k] = 0 /\ outcome[k] = "none"

\* C1: with fail_fast set, once a tool has failed no tool after it in
\* execution order (same phase or later phase) is called, installed or run;
\* the run is either about to raise typer.Exit(1) for that tool or has been
\* aborted with exit code 1, and never finishes normally.
C1_FailFastAborts ==
    config.fail_fast =>
        \A k \in 1..Len(ExecutionOrder) :
            outcome[ExecutionOrder[k]] = "failed" =>
                /\ \A j \in (k + 1)..Len(ExecutionOrder) :
                        NotStarted(ExecutionOrder[j])
                /\ \A j \in 1..(k - 1) : outcome[ExecutionOrder[j]] # "failed"
                /\ InLoopBody /\ Key = ExecutionOrder[k]
                /\ at = "returned" /\ ~success
                /\ \/ status = "running"
                   \/ status = "aborted" /\ exit_code = 1

\* C1 witness: one tool in each phase, the first linter succeeded, the
\* formatter failed and the run was aborted before the other linter.
C1_Witness ==
    /\ config.fail_fast
    /\ status = "aborted" /\ pc = "formatter"
    /\ Len(get_first_linters(config)) = 1
    /\ Len(get_other_linters(config)) = 1
    /\ outcome[ExecutionOrder[1]] = "succeeded"
    /\ outcome[ExecutionOrder[2]] = "failed"
    /\ NotStarted(ExecutionOrder[3])

\* The AND of the outcomes of the tools of phase p.
PhaseAllSucceeded(p) ==
    \A i \in 1..Len(PhaseTools(p)) :
        outcome[<<KindOf(p), PhaseTools(p)[i].id>>] = "succeeded"

\* C2: with fail_fast unset and no "only" list, a finished run has called
\* every configured tool exactly once (every linter's command ran exactly
\* once, no tool was installed or run twice), each phase returned the AND of
\* its tools' outcomes, and the run failed (exit code 1) exactly when some
\* tool failed.
C2_CollectAll ==
    (~config.fail_fast /\ only.is_none /\ status = "finished") =>
        /\ \A k \in ToolKeys(config) :
                /\ calls[k] = 1
                /\ outcome[k] # "none"
                /\ installs[k] <= 1 /\ commands[k] <= 1
                /\ k[1] = "linter" => installs[k] = 1 /\ commands[k] = 1
        /\ \A i \in 1..Len(Phases) :
                results[Phases[i]] = PhaseAllSucceeded(Phases[i])
        /\ (exit_code = 0) = (\A i \in 1..Len(Phases) : results[Phases[i]])
        /\ (exit_code = 1) = (\E k \in ToolKeys(config) : outcome[k] = "failed")
        /\ exit_code \in {0, 1}

\* C2 witness: the first two tools failed, the third still ran and
\* succeeded, and the run finished as failed.
C2_Witness ==
    /\ ~config.fail_fast /\ only.is_none /\ status = "finished"
    /\ Len(ExecutionOrder) = 3
    /\ outcome[ExecutionOrder[1]] = "failed"
    /\ outcome[ExecutionOrder[2]] = "failed"
    /\ outcome[ExecutionOrder[3]] = "succeeded"
    /\ exit_code = 1

PhaseOrder == <<"linter_first", "formatter", "linter_other", "done">>

\* C3: the phases entered so far are always an initial part of
\* FirstLinters, Formatters, OtherLinters, Done (none skipped, none entered
\* twice), the run is in the phase entered last, each phase left has
\* returned its result, and a finished run has entered all four.
C3_PhaseOrder ==
    /\ Len(entered) \in 1..Len(PhaseOrder)
    /\ entered = SubSeq(PhaseOrder, 1, Len(entered))
    /\ pc = entered[Len(entered)]
    /\ DOMAIN results = {entered[i] : i \in 1..(Len(entered) - 1)}
    /\ (status = "finished") = (pc = "done")
    /\ status = "finished" => entered = PhaseOrder

\* C3 witness: a finished run whose first-linters phase reported failure
\* and whose formatters phase had no tools.
C3_Witness ==
    /\ status = "finished"
    /\ ~config.fail_fast
    /\ results["linter_first"] = FALSE
    /\ Len(config.formatters) = 0
    /\ Len(get_other_linters(config)) > 0
    /\ entered = PhaseOrder

\* C4: the first-linters group holds exactly the linters with run_first
\* set and the other-linters group exactly those without; the groups are
\* disjoint, together hold every linter of the list once, and each keeps
\* the linters in their order in the list.
C4_StablePartition ==
    LET L == config.linters
        F == get_first_linters(config)
        O == get_other_linters(config)
        Ids(s) == {s[i].id : i \in 1..Len(s)}
    IN  /\ \A i \in 1..Len(F) : F[i].run_first /\ F[i] = L[F[i].id]
        /\ \A i \in 1..Len(O) : ~O[i].run_first /\ O[i] = L[O[i].id]
        /\ Ids(F) = {i \in 1..Len(L) : L[i].run_first}
        /\ Ids(O) = {i \in 1..Len(L) : ~L[i].run_first}
        /\ Ids(F) \cap Ids(O) = {}
        /\ Ids(F) \cup Ids(O) = 1..Len(L)
        /\ Len(F) = Cardinality(Ids(F))
        /\ Len(O) = Cardinality(Ids(O))
        /\ \A i, j \in 1..Len(F) : i < j => F[i].id < F[j].id
        /\ \A i, j \in 1..Len(O) : i < j => O[i].id < O[j].id

\* C4 witness: of three linters only the second has run_first; the
\* first-linters phase has called it and neither of the others.
C4_Witness ==
    /\ Len(config.linters) = 3
    /\ ~config.linters[1].run_first
    /\ config.linters[2].run_first
    /\ ~config.linters[3].run_first
    /\ pc = "formatter"
    /\ calls[<<"linter", 2>>] = 1
    /\ calls[<<"linter", 1>>] = 0 /\ calls[<<"linter", 3>>] = 0

Started(k) == installs[k] > 0 \/ commands[k] > 0

\* C5: at most one child process is active; it belongs to the tool of the
\* current loop iteration; an install process is active only while its tool
\* has started no command, a command process only after its tool's install
\* has exited; and a tool has started a child process only when every tool
\* before it in execution order was skipped or has returned its outcome.
C5_Sequential ==
    /\ Cardinality(active) <= 1
    /\ \A proc \in active :
            /\ InLoopBody /\ proc.tool = Key
            /\ proc.what = "install" => at = "installing" /\ commands[Key] = 0
            /\ proc.what = "command" => at = "running" /\ installs[Key] = 1
    /\ at = "installing" => active = {InstallProc}
    /\ at = "running" => active = {CommandProc}
    /\ at \notin {"installing", "running"} => active = {}
    /\ \A k \in 1..Len(ExecutionOrder) :
            Started(ExecutionOrder[k]) =>
                \A j \in 1..(k - 1) :
                    \/ calls[ExecutionOrder[j]] = 0
                    \/ outcome[ExecutionOrder[j]] # "none"

\* C5 witness: the command of the second formatter is running after the
\* first formatter's install and command have both exited.
C5_Witness ==
    /\ pc = "formatter" /\ idx = 2 /\ at = "running"
    /\ active = {CommandProc}
    /\ installs[<<"formatter", 1>>] = 1
    /\ commands[<<"formatter", 1>>] = 1
    /\ outcome[<<"formatter", 1>>] # "none"

\* The loop is on a formatter.
OnFormatter == InLoopBody /\ KindOf(pc) = "formatter"
OnLinter == InLoopBody /\ KindOf(pc) = "linter"

C8_CheckWithoutCommand ==
    ~format_ =>
        \A i \in 1..Len(config.formatters) :
            ~config.formatters[i].has_check_command =>
                /\ installs[<<"formatter", i>>] = 0
                /\ commands[<<"formatter", i>>] = 0
                /\ \A proc \in active : proc.tool # <<"formatter", i>>
                /\ outcome[<<"formatter", i>>] \in {"none", "succeeded"}
                /\ (calls[<<"formatter", i>>] > 0
                        /\ ~(pc = "formatter" /\ idx = i /\ at = "call"))
                        => outcome[<<"formatter", i>>] = "succeeded"
                /\ (pc = "formatter" /\ idx = i) => status # "aborted"

\* C8 witness: run_check has returned True for a formatter without
\* check_command, with no install and no command started.
C8_Witness ==
    /\ OnFormatter /\ ~format_ /\ at = "returned"
    /\ ~Tool.has_check_command
    /\ success /\ outcome[Key] = "succeeded"
    /\ calls[Key] = 1 /\ installs[Key] = 0 /\ commands[Key] = 0

\* C9: in the Check task, for a formatter with a check_command: a failed
\* install gives Failed without the check command being started; after a
\* successful install the outcome is Succeeded iff the check command exited
\* 0, whatever allow_nonzero_on_format is.
C9_CheckStrict ==
    (OnFormatter /\ ~format_ /\ Tool.has_check_command) =>
        /\ install_ok = "failed" =>
                /\ commands[Key] = 0
                /\ CommandProc \notin active
                /\ at \in {"installed", "returned"}
                /\ at = "returned" => ~success /\ outcome[Key] = "failed"
        /\ (install_ok = "ok" /\ at = "returned") =>
                /\ exit_status \in ExitCodes
                /\ commands[Key] = 1
                /\ success = (exit_status = 0)
                /\ outcome[Key] = Outcome(exit_status = 0)
        /\ at = "returned" => install_ok # "none"

\* C9 witness: the check command of a formatter with the flag set exited
\* 2 and run_check returned False.
C9_Witness ==
    /\ OnFormatter /\ ~format_ /\ at = "returned"
    /\ Tool.has_check_command /\ Tool.allow_nonzero_on_format
    /\ install_ok = "ok" /\ exit_status = 2
    /\ ~success /\ outcome[Key] = "failed"

\* C10: a linter whose install failed still has its lint command started,
\* exactly once, and Linter.run returns the command's result alone: a
\* linter never returns an outcome without its command having run once.
C10_LinterInstallTolerance ==
    /\ OnLinter =>
            /\ at = "returned" =>
                    /\ installs[Key] = 1 /\ commands[Key] = 1
                    /\ exit_status \in ExitCodes
                    /\ success = (exit_status = 0)
                    /\ outcome[Key] = Outcome(exit_status = 0)
            /\ install_ok = "failed" =>
                    /\ at \in {"installed", "running", "returned"}
                    /\ at = "installed" => commands[Key] = 0
                    /\ at \in {"running", "returned"} => commands[Key] = 1
    /\ \A i \in 1..Len(config.linters) :
            outcome[<<"linter", i>>] # "none" =>
                installs[<<"linter", i>>] = 1 /\ commands[<<"linter", i>>] = 1

\* C10 witness: the install failed, the lint command exited 0 and
\* Linter.run returned True.
C10_Witness ==
    /\ OnLinter /\ at = "returned"
    /\ install_ok = "failed" /\ exit_status = 0
    /\ installs[Key] = 1 /\ commands[Key] = 1
    /\ success /\ outcome[Key] = "succeeded"

\* The name of the tool with key k.
ToolName(k) ==
    IF k[1] = "linter"
    THEN config.linters[k[2]].name
    ELSE config.formatters[k[2]].name

\* An "only run these" subset is present.
OnlyPresent == ~only.is_none /\ only.names # <<>>

InSubset(k) == ToolName(k) \in Range(only.names)

\* C11: with an "only" subset present, a tool whose name is not in the
\* subset is never called, installed or run and never gets an outcome, the
\* loop is never inside its body (so it raises no abort), and each phase
\* result and the exit code of a finished run are decided by the tools in
\* the subset alone; a tool in the subset is called as usual (exactly once
\* in a finished run, with an outcome).
C11_OnlySubsetSkips ==
    OnlyPresent =>
        /\ \A k \in ToolKeys(config) :
                ~InSubset(k) =>
                    /\ NotStarted(k)
                    /\ \A proc \in active : proc.tool # k
                    /\ (InLoopBody /\ Key = k) => at = "loop" /\ status = "running"
        /\ status = "finished" =>
                /\ \A k \in ToolKeys(config) :
                        InSubset(k) => calls[k] = 1 /\ outcome[k] # "none"
                /\ \A i \in 1..Len(Phases) :
                        results[Phases[i]] =
                            \A j \in 1..Len(PhaseTools(Phases[i])) :
                                LET k == <<KindOf(Phases[i]),
                                           PhaseTools(Phases[i])[j].id>>
                                IN  InSubset(k) => outcome[k] = "succeeded"
                /\ (exit_code = 1) =
                        \E k \in ToolKeys(config) :
                            InSubset(k) /\ outcome[k] = "failed"
                /\ exit_code \in {0, 1}

\* C11 witness: only = ["flake8"] with two linters and a formatter; the run
\* finished with exit code 0 after flake8 succeeded, the other two tools
\* never started.
C11_Witness ==
    /\ OnlyPresent /\ status = "finished" /\ exit_code = 0
    /\ Len(config.linters) = 2 /\ Len(config.formatters) = 1
    /\ only.names = <<"flake8">>
    /\ config.fail_fast
    /\ calls[<<"linter", 1>>] = 1 /\ outcome[<<"linter", 1>>] = "succeeded"
    /\ commands[<<"linter", 1>>] = 1
    /\ NotStarted(<<"linter", 2>>)
    /\ NotStarted(<<"formatter", 1>>)

\* C12 (as claimed): a child process that cannot be started gives its tool
\* the outcome Failed and nothing else: the run never ends by an uncaught
\* exception, a run that has ended was finished by run() or aborted by the
\* fail-fast raise, and with fail_fast unset a run that has ended has called
\* every tool that should run and given it an outcome.
C12_SpawnFailureSurfaced ==
    /\ status # "crashed"
    /\ (status # "running" /\ ~config.fail_fast) =>
            /\ status = "finished"
            /\ \A k \in ToolKeys(config) :
                    should_run(ToolName(k)) =>
                        calls[k] = 1 /\ outcome[k] # "none"

\* The state C12 is about: with fail_fast unset, the first tool's command
\* could not be started; the run has ended on the exception, the tool has no
\* outcome and the tools after it were never called.
C12_CrashReached ==
    /\ status = "crashed" /\ ~config.fail_fast
    /\ Len(ExecutionOrder) = 3
    /\ InLoopBody /\ Key = ExecutionOrder[1]
    /\ at = "installed" /\ outcome[Key] = "none"
    /\ NotStarted(ExecutionOrder[2]) /\ NotStarted(ExecutionOrder[3])

\* A run has ended: by run() returning or raising, by the fail-fast raise,
\* or by an exception nothing caught.
Ended == status \notin {"loading", "running"}

\* The tools run_linter / run_formatter was called on.
Executed == {k \in ToolKeys(config) : calls[k] > 0}

\* C13: in both tasks and under both fail_fast values the exit code is set
\* exactly when the run has ended, is then 0 or 1, and is 0 exactly when
\* every tool that was executed returned Succeeded (so 1 exactly when some
\* executed tool did not).
C13_ExitCode ==
    /\ ~Ended => exit_code = NoStatus
    /\ Ended =>
            /\ exit_code \in {0, 1}
            /\ (exit_code = 0) = (\A k \in Executed : outcome[k] = "succeeded")
            /\ (\E k \in Executed : outcome[k] = "failed") => exit_code = 1
    /\ status = "aborted" => \E k \in Executed : outcome[k] = "failed"
    /\ (status = "finished" /\ exit_code = 1) =>
            \E k \in Executed : outcome[k] = "failed"

\* C13 witness: the Check task with fail_fast unset; of three executed
\* tools the formatter failed, both linters succeeded, and run() raised
\* typer.Exit(1).
C13_Witness ==
    /\ ~format_ /\ ~config.fail_fast
    /\ status = "finished" /\ exit_code = 1
    /\ Cardinality(Executed) = 3
    /\ Len(config.formatters) = 1
    /\ outcome[<<"formatter", 1>>] = "failed"
    /\ \A k \in Executed : k[1] = "linter" => outcome[k] = "succeeded"

\* The first linters that should run, as keys in list order.
FirstLintersToRun ==
    SelectSeq(KeysOf("linter", get_first_linters(config)),
              LAMBDA k : should_run(ToolName(k)))

\* C14: what a linter does is fixed by the configuration, the "only" list
\* and its child processes' exit statuses, in the Format and in the Check
\* task alike: it is run by Linter.run, one install attempt, then its
\* command once, its outcome the command's exit status being 0; and once
\* the first-linters phase has returned, exactly the first linters that
\* should run have been invoked, once each, and the phase result is the AND
\* of their outcomes.
C14_TaskAffectsFormattersOnly ==
    \A task \in BOOLEAN :
        format_ = task =>
            /\ OnLinter =>
                    /\ Executor = "Linter.run"
                    /\ at = "call" => installs[Key] = 0 /\ commands[Key] = 0
                    /\ at \in {"installing", "installed"} =>
                            installs[Key] = 1 /\ commands[Key] = 0
                    /\ at \in {"running", "returned"} =>
                            installs[Key] = 1 /\ commands[Key] = 1
                    /\ at = "returned" =>
                            /\ success = (exit_status = 0)
                            /\ outcome[Key] = Outcome(exit_status = 0)
            /\ "linter_first" \in DOMAIN results =>
                    /\ \A i \in 1..Len(get_first_linters(config)) :
                            LET k == <<"linter", get_first_linters(config)[i].id>>
                                n == IF should_run(ToolName(k)) THEN 1 ELSE 0
                            IN  /\ calls[k] = n
                                /\ installs[k] = n
                                /\ commands[k] = n
                    /\ results["linter_first"] =
                            \A i \in 1..Len(FirstLintersToRun) :
                                outcome[FirstLintersToRun[i]] = "succeeded"

\* C14 witness: the Check task; the first-linters phase has returned False
\* after its two linters were installed and run, and the loop is on a
\* formatter without check_command.
C14_Witness ==
    /\ ~format_ /\ ~config.fail_fast
    /\ Len(FirstLintersToRun) = 2
    /\ "linter_first" \in DOMAIN results
    /\ results["linter_first"] = FALSE
    /\ outcome[FirstLintersToRun[1]] = "failed"
    /\ outcome[FirstLintersToRun[2]] = "succeeded"
    /\ OnFormatter /\ at = "returned" /\ ~Tool.has_check_command

\* The entries of a configuration file, formatters then linters.
Entries(d) == d.formatters \o d.linters

\* The configuration file is as the specification's schema has it: found,
\* with a lemming table, no top-level key but formatters, linters and
\* fail_fast, and every entry buildable.
SchemaValid(d) ==
    /\ d.file = "found"
    /\ Range(d.top) \subseteq {"formatters", "linters", "fail_fast"}
    /\ \A i \in 1..Len(Entries(d)) :
            /\ Range(Entries(d)[i]) \subseteq Range(FormatterOrLinterKeys)
            /\ "package" \in Range(Entries(d)[i])

\* C15 (as claimed): a configuration that does not set fail_fast is loaded
\* with fail_fast true, and one that sets fail_fast is loaded with the value
\* it sets; neither is refused.
C15_FailFastDefaultTrue ==
    (status # "loading" /\ SchemaValid(dictionary)) =>
        /\ status # "config_error"
        /\ config.fail_fast =
                IF "fail_fast" \in Range(dictionary.top)
                THEN dictionary.fail_fast
                ELSE TRUE

\* The state C15 is about: a configuration of one linter that sets
\* fail_fast = false has been refused.
C15_Refused ==
    /\ status = "config_error"
    /\ dictionary.file = "found"
    /\ dictionary.top = <<"linters", "fail_fast">>
    /\ dictionary.fail_fast = FALSE
    /\ dictionary.linters = <<(<<"package">>)>>

\* Some tool entry holds a key that from_dict does not recognise.
UnknownEntryKey(d) ==
    \E i \in 1..Len(Entries(d)) :
        \E key \in Range(Entries(d)[i]) :
            key \notin Range(FormatterOrLinterKeys)

\* C16: once both() is over, a configuration with a tool entry holding an
\* unrecognised key has been refused (no Config was built from it, exit
\* code 1), and a configuration that was refused although its file was
\* found, its top-level keys are allowed and every entry has its package
\* holds an entry with an unrecognised key: no entry is refused for keys
\* that are all recognised.
C16_UnknownKeysRejected ==
    status # "loading" =>
        /\ UnknownEntryKey(dictionary) =>
                /\ status = "config_error"
                /\ config = NoConfig
                /\ exit_code = 1
        /\ (/\ status = "config_error"
            /\ dictionary.file = "found"
            /\ Range(dictionary.top) \subseteq Range(ConfigKeys)
            /\ \A i \in 1..Len(Entries(dictionary)) :
                    "package" \in Range(Entries(dictionary)[i]))
                => UnknownEntryKey(dictionary)

\* C16 witness: the one linter entry holds the keys package and colour;
\* the configuration was refused.
C16_Witness ==
    /\ status = "config_error"
    /\ dictionary.top = <<"linters">>
    /\ dictionary.linters = <<(<<"package", "colour">>)>>

\* The configuration cannot be loaded: no file, no lemming table, a key
\* that is not allowed at the top level or in an entry, or an entry without
\* its required package.
ConfigurationError(d) ==
    \/ d.file # "found"
    \/ \E key \in Range(d.top) : key \notin Range(ConfigKeys)
    \/ UnknownEntryKey(d)
    \/ \E i \in 1..Len(Entries(d)) : "package" \notin Range(Entries(d)[i])

\* C17: a configuration that cannot be loaded never gets into run(): the
\* invocation is still in both() or has ended there with exit code 1, with
\* no Config built, no phase begun, no tool called and no install or
\* command child process started; and a configuration that can be loaded
\* is not refused.
C17_ConfigErrorBeforeAnyTool ==
    /\ ConfigurationError(dictionary) =>
            /\ status \in {"loading", "config_error"}
            /\ status = "config_error" => exit_code = 1
            /\ config = NoConfig
            /\ active = {}
            /\ DOMAIN calls = {} /\ DOMAIN installs = {}
            /\ DOMAIN commands = {} /\ DOMAIN outcome = {}
            /\ entered = <<"linter_first">> /\ results = <<>>
            /\ idx = 1 /\ at = "loop"
    /\ status = "config_error" => ConfigurationError(dictionary)

\* C17 witness: the linter entry is good and the formatter entry lacks its
\* package; the invocation ended in both() and the linter was never run.
C17_Witness ==
    /\ status = "config_error" /\ exit_code = 1
    /\ dictionary.top = <<"formatters", "linters">>
    /\ dictionary.linters = <<(<<"package">>)>>
    /\ dictionary.formatters = <<(<<"args">>)>>
    /\ DOMAIN installs = {}

\* Flatten(ss): the strs of the sequence ss one after the other.
RECURSIVE Flatten(_)
Flatten(ss) == IF ss = <<>> THEN <<>> ELSE Head(ss) \o Flatten(Tail(ss))

\* "a b c" for <<"a", "b", "c">>
Spaced(items) ==
    [i \in 1..(IF items = <<>> THEN 0 ELSE 2 * Len(items) - 1) |->
        IF i % 2 = 1 THEN items[(i + 1) \div 2] ELSE " "]

\* What a symbol of the template stands for in the call followed: the
\* context value of a placeholder (self.args with its own {path} replaced),
\* the symbol itself otherwise.
Expansion(sym) ==
    LET r == rendering
        paths == Spaced(r.paths_to_check)
        in_args(a) == IF a = "{path}" THEN paths ELSE <<a>>
    IN  CASE sym = "{pyexe}" -> <<PyExe>>
          [] sym = "{package}" -> <<r.package>>
          [] sym = "{args}" ->
                Flatten([i \in 1..Len(r.args) |-> in_args(r.args[i])])
          [] sym = "{path}" -> paths
          [] sym = "{also_install}" -> Spaced(r.also_install)
          [] OTHER -> <<sym>>

\* "/usr/bin/py -m black a.py b.py"
ExampleRendered ==
    <<"/usr/bin/py", " ", "-m", " ", "black", " ", "a.py", " ", "b.py">>

\* The call of run_command has computed its command string.
Rendered == rendering.step \in {"rendered", "spawned"}

Placeholders == {"{pyexe}", "{package}", "{args}", "{path}", "{also_install}"}

\* The symbols of s that only a template holds: its fixed words.
TemplateText(s) ==
    SelectSeq(s, LAMBDA sym : sym \in {"-m", "pip", "install", "-U"})

\* The number of times sym is in s.
Count(s, sym) == Cardinality({i \in 1..Len(s) : s[i] = sym})

\* C19: rendering changes nothing but the placeholder tokens: the
\* template's own words are in the command in their order, each as often
\* as in the template; a brace token that is no placeholder ({unknown},
\* {packages}) is in the command exactly as often as the template and the
\* substituted args hold it; and the command is as long as the template
\* with each placeholder's value in its place, nothing added or dropped.
C19_LiteralSubstitution ==
    Rendered =>
        LET r == rendering
        IN  /\ TemplateText(r.rendered) = TemplateText(r.cmd)
            /\ \A token \in {"{unknown}", "{packages}"} :
                    Count(r.rendered, token) =
                        Count(r.cmd, token)
                            + Count(r.cmd, "{args}") * Count(r.args, token)
            /\ Len(r.rendered) =
                    Len(r.cmd)
                        + Count(r.cmd, "{args}")
                            * (Len(Expansion("{args}")) - 1)
                        + Count(r.cmd, "{path}")
                            * (Len(Expansion("{path}")) - 1)
                        + Count(r.cmd, "{also_install}")
                            * (Len(Expansion("{also_install}")) - 1)

\* C19 witness: args "{packages} {path}" rendered for a.py: {packages} is
\* still there, {path} is a.py.
C19_Witness ==
    /\ Rendered
    /\ rendering.cmd = RunTemplate
    /\ rendering.args = <<"{packages}", " ", "{path}">>
    /\ rendering.paths_to_check = <<"a.py">>
    /\ Count(rendering.rendered, "{packages}") = 1
    /\ Count(rendering.rendered, "a.py") = 1

\* Shell word splitting (from the specification) of a str without quotes:
\* its maximal runs of symbols that are not spaces.
shlex_split(s) ==
    LET starts == {i \in 1..Len(s) : s[i] # " " /\ (i = 1 \/ s[i - 1] = " ")}
        word(i) ==
            SubSeq(s, i, CHOOSE j \in i..Len(s) :
                            /\ \A k \in i..j : s[k] # " "
                            /\ (j = Len(s) \/ s[j + 1] = " "))
        RECURSIVE words(_)
        words(S) ==
            IF S = {} THEN <<>>
            ELSE LET i == CHOOSE x \in S : \A y \in S : x <= y
                 IN  <<word(i)>> \o words(S \ {i})
    IN  words(starts)

\* C20 (as claimed): what subprocess.run is given is a list, the words of
\* the rendered command, with shell interpretation off; never the command
\* string itself.
C20_TokenizedArgv ==
    rendering.step = "spawned" =>
        /\ rendering.handed.type = "list"
        /\ rendering.handed.value = shlex_split(rendering.rendered)
        /\ ~rendering.handed.shell

\* The state C20 is about: subprocess.run was given the str
\* "/usr/bin/py -m black a.py b.py", whose words are five.
C20_StringHanded ==
    /\ rendering.step = "spawned"
    /\ rendering.rendered = ExampleRendered
    /\ rendering.handed.type = "str"
    /\ rendering.handed.value = ExampleRendered
    /\ Len(shlex_split(rendering.rendered)) = 5

\* C21: a package-install child process is run quiet exactly when the pip
\* flag is set and a tool-command child process exactly when the commands
\* flag is set; and under every value of the two flags what a tool returns
\* is fixed by its executor, its install result and its command's exit
\* status.
C21_QuietFlagsIndependent ==
    /\ \A p \in active :
            /\ p.what = "install" => p.quiet = what_to_quiet.pip
            /\ p.what = "command" => p.quiet = what_to_quiet.commands
    /\ (InLoopBody /\ at = "returned") =>
            /\ success =
                    IF commands[Key] = 0
                    THEN installs[Key] = 0
                    ELSE \/ exit_status = 0
                         \/ /\ Executor = "run_format"
                            /\ Tool.allow_nonzero_on_format
            /\ outcome[Key] = Outcome(success)

\* C21 witness: only the pip flag is set; a linter's install ran quiet, its
\* command runs with its output shown.
C21_Witness ==
    /\ what_to_quiet.pip /\ ~what_to_quiet.commands
    /\ OnLinter /\ at = "running"
    /\ installs[Key] = 1
    /\ \E p \in active : p.what = "command" /\ ~p.quiet


\* The configuration of the end-to-end scenario: a first linter, a formatter
\* without check_command (no nonzero allowance), an other linter, fail_fast.
E2EConfig ==
    [formatters |-> <<[id |-> 1, name |-> FormatterNames[1],
                       has_check_command |-> FALSE,
                       allow_nonzero_on_format |-> FALSE]>>,
     linters |-> <<[id |-> 1, name |-> LinterNames[1], run_first |-> TRUE,
                    allow_nonzero |-> FALSE],
                   [id |-> 2, name |-> LinterNames[2], run_first |-> FALSE,
                    allow_nonzero |-> FALSE]>>,
     fail_fast |-> TRUE]

E2EFirst == <<"linter", 1>>
E2EFormatter == <<"formatter", 1>>
E2EOther == <<"linter", 2>>

\* The scenario's run has ended with its exit statuses: the first linter
\* succeeded (its command exited 0), the formatter succeeded, the other
\* linter's command exited 1.
E2EEnded ==
    /\ config = E2EConfig /\ only = OnlyNone
    /\ Ended
    /\ outcome[E2EFirst] = "succeeded"
    /\ outcome[E2EFormatter] = "succeeded"
    /\ outcome[E2EOther] = "failed"
    /\ exit_status = 1

\* C22: in the end-to-end scenario the tools are taken in the order first
\* linter, formatter, other linter; the Format task installs and runs all
\* three, the Check task has the formatter's check succeed with nothing
\* installed or run and still runs the other linter; and the run ends on the
\* other linter's failure, by the fail-fast raise, with exit code 1.
C22_EndToEnd ==
    (config = E2EConfig /\ only = OnlyNone) =>
        /\ calls[E2EFormatter] > 0 => outcome[E2EFirst] # "none"
        /\ calls[E2EOther] > 0 => outcome[E2EFormatter] # "none"
        /\ (~format_ /\ outcome[E2EFormatter] # "none") =>
                /\ outcome[E2EFormatter] = "succeeded"
                /\ installs[E2EFormatter] = 0
                /\ commands[E2EFormatter] = 0
        /\ E2EEnded =>
                /\ status = "aborted" /\ exit_code = 1
                /\ entered = Phases
                /\ pc = "linter_other" /\ Key = E2EOther /\ at = "returned"
                /\ \A k \in {E2EFirst, E2EFormatter, E2EOther} : calls[k] = 1
                /\ \A k \in {E2EFirst, E2EOther} :
                        installs[k] = 1 /\ commands[k] = 1
                /\ format_ => /\ installs[E2EFormatter] = 1
                              /\ commands[E2EFormatter] = 1

\* C22 witness: the Check task of the scenario has ended on the other
\* linter's failure.
C22_Witness ==
    /\ E2EEnded /\ ~format_
    /\ status = "aborted"
    /\ commands[E2EFormatter] = 0 /\ commands[E2EOther] = 1


\* How often message m has been logged.
Logged(m) == Cardinality({i \in 1..Len(log) : log[i] = m})

\* C23: with fail_fast unset, the summary error is logged at most once and
\* never together with the success message, never before all three phase
\* functions have returned; and a run that has ended has logged the summary
\* error if and only if some tool failed, and has logged the success
\* message and no summary error if every tool it executed succeeded.
C23_SummaryError ==
    ~config.fail_fast =>
        /\ Logged("summary_error") + Logged("success") <= 1
        /\ log # <<>> =>
                \A i \in 1..Len(Phases) : Phases[i] \in DOMAIN results
        /\ Ended =>
                /\ Logged("summary_error") = 1
                        <=> \E k \in ToolKeys(config) : outcome[k] = "failed"
                /\ (\A k \in Executed : outcome[k] = "succeeded")
                        => log = <<"success">>

\* C23 failing run: fail_fast unset, a tool failed, and the run has ended,
\* by the exception of a later tool's subprocess.run, with no summary error
\* logged.
C23_NoSummaryAfterCrash ==
    /\ ~config.fail_fast /\ status = "crashed"
    /\ \E k \in ToolKeys(config) : outcome[k] = "failed"
    /\ log = <<>>

\* C24: no step of a run changes the configuration (the formatter list, the
\* linter list, the tools' fields, fail_fast), the "only" list or the two
\* quiet flags.
C24_SettingsUnchanged ==
    [][/\ config' = config
       /\ only' = only
       /\ what_to_quiet' = what_to_quiet]_vars

\* C24 witness: with both quiet flags set and an "only" list present, a tool
\* was skipped, another was installed and run, failed, and the run was
\* aborted by fail-fast.
C24_Witness ==
    /\ what_to_quiet.pip /\ what_to_quiet.commands
    /\ OnlyPresent /\ config.fail_fast
    /\ status = "aborted"
    /\ installs[Key] = 1 /\ commands[Key] = 1 /\ outcome[Key] = "failed"
    /\ \E k \in ToolKeys(config) : ~InSubset(k) /\ calls[k] = 0


\* C25: a {path} inside the tool's args is replaced by the paths joined with
\* spaces: "{pyexe} -m {package} {args}" renders to the interpreter, -m, the
\* package and then the args with every {path} of theirs replaced, so that
\* no {path} is left and each path is there once for every {path} of the
\* args; and the install command, rendered with no paths, holds no path and
\* no {path}.
C25_PathInsideArgs ==
    Rendered =>
        LET r == rendering
            n == Len(RunTemplate)
        IN  /\ r.cmd = RunTemplate =>
                    /\ Count(r.rendered, "{path}") = 0
                    /\ \A i \in 1..Len(r.paths_to_check) :
                            Count(r.rendered, r.paths_to_check[i]) =
                                Count(r.args, "{path}")
                    /\ SubSeq(r.rendered, 1, n - 1) =
                            <<PyExe, " ", "-m", " ", r.package, " ">>
                    /\ SubSeq(r.rendered, n, Len(r.rendered)) =
                            Flatten([i \in 1..Len(r.args) |->
                                        IF r.args[i] = "{path}"
                                        THEN Spaced(r.paths_to_check)
                                        ELSE <<r.args[i]>>])
            /\ r.cmd = InstallTemplate =>
                    /\ r.paths_to_check = <<>>
                    /\ \A i \in 1..Len(r.rendered) :
                            r.rendered[i] \notin Range(PathNames) \cup {"{path}"}

\* C25 witness: args "--diff {path}" rendered for a.py and b.py.
C25_Witness ==
    /\ Rendered
    /\ rendering.cmd = RunTemplate
    /\ rendering.args = <<"--diff", " ", "{path}">>
    /\ rendering.paths_to_check = <<"a.py", "b.py">>
    /\ rendering.rendered =
            <<"/usr/bin/py", " ", "-m", " ", "black", " ", "--diff", " ",
              "a.py", " ", "b.py">>


\* C26: a linter's outcome is Succeeded exactly when its lint command
\* exited 0, with allow_nonzero set or not and the install failed or not:
\* the command is run once after the one install attempt, and what
\* Linter.run returns is "exit status = 0".
C26_LinterAllowNonzeroIgnored ==
    (OnLinter /\ at = "returned") =>
        /\ installs[Key] = 1 /\ commands[Key] = 1
        /\ install_ok \in {"ok", "failed"}
        /\ success = (exit_status = 0)
        /\ outcome[Key] = "succeeded" <=> exit_status = 0
        /\ outcome[Key] = "failed" <=> exit_status # 0

\* C26 witness: a linter with allow_nonzero set, its install failed, its
\* command exited 2: Failed.
C26_Witness ==
    /\ OnLinter /\ at = "returned"
    /\ Tool.allow_nonzero
    /\ install_ok = "failed" /\ exit_status = 2
    /\ ~success /\ outcome[Key] = "failed"

\* The "only" list is non-empty and names no configured tool.
OnlyMatchesNone == OnlyPresent /\ \A k \in ToolKeys(config) : ~InSubset(k)

\* C27: with "only" absent or an empty list, should_run is true of every
\* configured tool's name, and every tool of a phase that has returned was
\* called once; with a non-empty "only" list that names no configured tool,
\* no tool is called, installed or run, nothing fails, and the run ends,
\* having logged the success message, with exit code 0.
C27_OnlyAbsentOrUnmatched ==
    /\ [](/\ (only.is_none \/ only.names = <<>>) =>
                /\ \A k \in ToolKeys(config) : should_run(ToolName(k))
                /\ \A i \in 1..Len(Phases) :
                        Phases[i] \in DOMAIN results =>
                            \A j \in 1..Len(PhaseTools(Phases[i])) :
                                calls[<<KindOf(Phases[i]),
                                        PhaseTools(Phases[i])[j].id>>] = 1
          /\ OnlyMatchesNone =>
                /\ \A k \in ToolKeys(config) :
                        /\ ~should_run(ToolName(k))
                        /\ calls[k] = 0 /\ installs[k] = 0 /\ commands[k] = 0
                        /\ outcome[k] = "none"
                /\ active = {}
                /\ status \in {"running", "finished"}
                /\ status = "finished" =>
                        /\ exit_code = 0 /\ run_success
                        /\ log = <<"success">>)
    /\ (OnlyMatchesNone ~> (status = "finished" /\ exit_code = 0))

\* C27 witness: "only" is the empty list; the run has finished with the
\* linter and the formatter each called once.
C27_Witness ==
    /\ only = OnlyList(<<>>)
    /\ status = "finished"
    /\ Cardinality(ToolKeys(config)) = 2
    /\ \A k \in ToolKeys(config) : calls[k] = 1 /\ commands[k] = 1


\* The three files of directory d, in the order they are looked for.
DirProbes(d) == [i \in 1..Len(ConfigFileNames) |-> <<d, ConfigFileNames[i]>>]

\* Every place of the search in the order of the claim: the start
\* directory, the directories of $XDG_CONFIG_DIRS, $XDG_CONFIG_HOME, then
\* the parents up to the root.
SearchOrder ==
    DirProbes(<<"chain", 1>>)
        \o Flatten([j \in 1..Len(search.xdg) |-> DirProbes(<<"xdg", j>>)])
        \o (IF search.home = "none" THEN <<>>
            ELSE <<<<<<"home", 1>>, CONFIG_FILE_NAME>>>>)
        \o Flatten([i \in 1..(Len(search.chain) - 1) |->
                        DirProbes(<<"chain", i + 1>>)])

\* find_config_file has returned or raised.
SearchEnded == search.at \in {"returned", "raised"}

\* C28: find_config_file looks in the order start directory (.lemming.toml,
\* .github/.lemming.toml, pyproject.toml), XDG config directories,
\* XDG_CONFIG_HOME, parents; it returns the first of these files that
\* exists, so a file of the start directory wins over every other place; it
\* raises FileNotFoundError only when none exists, at the directory that is
\* its own parent, having looked everywhere; and it always ends.
C28_FindConfigFile ==
    /\ [](LET s == search
          IN  /\ Len(s.probed) <= Len(SearchOrder)
              /\ s.probed = SubSeq(SearchOrder, 1, Len(s.probed))
              /\ \A i \in 1..(Len(s.probed) - 1) : ~exists(s.probed[i])
              /\ s.at = "returned" =>
                    /\ s.probed # <<>>
                    /\ s.result = s.probed[Len(s.probed)]
                    /\ exists(s.result)
              /\ s.at = "raised" =>
                    /\ s.probed = SearchOrder
                    /\ \A i \in 1..Len(SearchOrder) : ~exists(SearchOrder[i])
                    /\ s.dir_ = <<"chain", Len(s.chain)>>
                    /\ parent(s.dir_) = s.dir_
              /\ (SearchEnded /\ s.chain[1] # {}) =>
                    /\ s.at = "returned"
                    /\ s.result[1] = <<"chain", 1>>)
    /\ <>SearchEnded

\* C28 witness: nothing in the start directory, in the XDG config directory
\* or in XDG_CONFIG_HOME; the parent's pyproject.toml was returned.
C28_Witness ==
    /\ search.at = "returned"
    /\ Len(search.chain) = 2 /\ Len(search.xdg) = 1
    /\ search.home = "missing"
    /\ search.result = <<<<"chain", 2>>, "pyproject.toml">>
    /\ Len(search.probed) = 10


\* C29: every run whose child processes exit ends, in Done after its three
\* phases or by the fail-fast raise on a failed tool; and no tool is called,
\* installed or run more than once.
C29_Terminates ==
    /\ [](\A k \in ToolKeys(config) :
            calls[k] <= 1 /\ installs[k] <= 1 /\ commands[k] <= 1)
    /\ [](status = "finished" =>
            \A i \in 1..Len(Phases) : Phases[i] \in DOMAIN results)
    /\ [](status = "aborted" =>
            config.fail_fast /\ outcome[Key] = "failed")
    /\ <>(status \in {"finished", "aborted"})

\* C29 failing run: the run has ended by the exception of subprocess.run,
\* before its last phase returned and with no fail-fast raise; every child
\* process that was started has exited.
C29_EndedByException ==
    /\ status = "crashed"
    /\ active = {}
    /\ "linter_other" \notin DOMAIN results
    /\ \A k \in ToolKeys(config) : outcome[k] # "failed"


====
